---- MODULE Spec2Model ----
(***************************************************************************)
(* Model of src/main.js: the episode Collector (the page.evaluate loop,    *)
(* lines 148-212) and the date Normalizer (normalizeDate, lines 217-292).  *)
(***************************************************************************)
EXTENDS Integers, Sequences, FiniteSets, TLC

(***************************************************************************)
(* Bounds of the model.                                                    *)
(***************************************************************************)
\* Largest number of <li> rows the episodes list ever holds.
MaxRows == 2
\* Largest `limit` (totalEpisodes) passed to the Collector.
MaxLimit == 3
\* The history counters (iterations, iterations without growth) saturate here.
CounterCap == 15

(***************************************************************************)
(* Program constants.                                                      *)
(***************************************************************************)
\* main.js:156  const maxStableAttempts = 12
maxStableAttempts == 12

(***************************************************************************)
(* Rows of the page.  A row is modelled by the value main.js:165 computes  *)
(* for `title`: the trimmed text of the title element, or null when the    *)
(* element is missing.  description, date and shareUrl are carried along   *)
(* by the code but never read by the loop, so a record keeps its title.    *)
(* A row whose extraction throws is skipped by the catch at main.js:183,   *)
(* exactly as a row without a title is.                                    *)
(***************************************************************************)
\* JavaScript null (no title element in the row).
Null == "<null>"
\* Title texts of the rows that have a title element.
TitleTexts == {"a", "b"}
RowValues == TitleTexts \cup {Null}

VARIABLES
    dom,            \* the live list: getRows() would return these rows now
    limit,          \* argument of the evaluate callback
    results,        \* const results = []
    prevCount,      \* let prevCount = 0
    stableAttempts, \* let stableAttempts = 0
    rows,           \* const rows = getRows()  (<<>> outside the for loop)
    i,              \* position of the for-of loop in rows (1-based)
    currentCount,   \* const currentCount = getRows().length; between two
                    \* iterations it still holds the count the last one re-read
    pc,             \* position of the callback
    returned,       \* value returned by the callback: results.slice(0, limit)
    \* history variables (not in the code; they record what the run observed)
    iters,          \* iterations of the while loop started so far, counted
                    \* until the loop sees the list grow past its first count
    grewLater,      \* an iteration after the first one saw the count exceed
                    \* every count seen before
    sinceGrew,      \* iterations started since the last iteration that saw
                    \* the count exceed every count seen before
    sawGrowth,      \* the last finished iteration re-read a count greater
                    \* than the one the iteration before it re-read
    appendOnly,     \* the list has only ever changed by appended rows
    \* normalizeDate (main.js:217-292)
    raw,            \* the argument of normalizeDate
    now,            \* the instant new Date() returns during the call
    tz,             \* minutes the process's local time is ahead of UTC
    parseGuess,     \* what Date.parse answers for text the standard leaves
                    \* to the engine
    out,            \* what the call produced: a {full, iso} pair, or a throw
    npc             \* "call" before normalizeDate runs, "done" after

cvars == <<dom, limit, results, prevCount, stableAttempts, rows, i,
           currentCount, pc, returned, iters, grewLater, sinceGrew, sawGrowth,
           appendOnly>>

nvars == <<raw, now, tz, parseGuess, out, npc>>

vars == <<cvars, nvars>>

\* Saturating increment of a history counter.
Sat(n) == IF n < CounterCap THEN n + 1 ELSE n

\* All row lists of length 0..MaxRows.
Doms == UNION {[1..n -> RowValues] : n \in 0..MaxRows}

(***************************************************************************)
(* The decisions of the loop, one operator per condition of the code.      *)
(***************************************************************************)
\* main.js:158  while (results.length < limit && stableAttempts < maxStableAttempts)
WhileCond(res, lim, sa) == Len(res) < lim /\ sa < maxStableAttempts

\* Variant of ForBreak: the pass without its break on the limit.
ForBreakNever(res, lim) == FALSE
\* main.js:162  if (results.length >= limit) break;
ForBreak(res, lim) == Len(res) >= lim

\* main.js:176  if (title)   -- null and "" are falsy
Truthy(title) == title # Null /\ title # ""

\* main.js:178  const last = results.length ? results[results.length - 1].title : null
LastTitle(res) == IF Len(res) > 0 THEN res[Len(res)].title ELSE Null

\* Variant of ShouldPush: a push without the comparison with the last title.
ShouldPushAlways(title, last) == TRUE
\* main.js:179  if (title !== last)
ShouldPush(title, last) == title # last

\* main.js:176-182  the effect of one row on results
PushRow(res, title) ==
    IF Truthy(title) /\ ShouldPush(title, LastTitle(res))
    THEN Append(res, [title |-> title])
    ELSE res

\* Variant of Grew: >= written for >.
GrewOrSame(cur, prev) == cur >= prev
\* main.js:190  if (currentCount > prevCount)
Grew(cur, prev) == cur > prev

\* Variant of NextStable: the else branch forgets to count.
NextStableStuck(cur, prev, sa) == IF cur > prev THEN 0 ELSE sa
\* main.js:190-195  the new value of stableAttempts
NextStable(cur, prev, sa) == IF Grew(cur, prev) THEN 0 ELSE sa + 1

\* main.js:190-191  the new value of prevCount
NextPrevCount(cur, prev) == IF Grew(cur, prev) THEN cur ELSE prev

\* main.js:211  results.slice(0, limit)
Slice(res, lim) == SubSeq(res, 1, IF Len(res) < lim THEN Len(res) ELSE lim)

(***************************************************************************)
(* The JavaScript Date the Normalizer uses.  A Date is a UTC instant, kept *)
(* as a day number (days since 1970-01-01) and a second of that day, or    *)
(* the Invalid Date (time value NaN).  Milliseconds are not modelled.      *)
(***************************************************************************)
InvalidDate == [valid |-> FALSE, day |-> 0, sec |-> 0]

\* ECMAScript MakeDay for a year, a month 1..12 and day 1: days since
\* 1970-01-01 of the first of that month (proleptic Gregorian calendar).
DaysFromCivil(y, m) ==
    LET yy  == IF m <= 2 THEN y - 1 ELSE y
        era == yy \div 400
        yoe == yy - era * 400
        mp  == IF m > 2 THEN m - 3 ELSE m + 9
        doy == (153 * mp + 2) \div 5
        doe == yoe * 365 + yoe \div 4 - yoe \div 100 + doy
    IN  era * 146097 + doe - 719468

\* ECMAScript YearFromTime / MonthFromTime / DateFromTime: the calendar date
\* of a day number, as [y, m, d] with m in 1..12.
CivilFromDays(z) ==
    LET zz  == z + 719468
        era == zz \div 146097
        doe == zz - era * 146097
        yoe == (doe - doe \div 1460 + doe \div 36524 - doe \div 146096) \div 365
        doy == doe - (365 * yoe + yoe \div 4 - yoe \div 100)
        mp  == (5 * doy + 2) \div 153
        d   == doy - (153 * mp + 2) \div 5 + 1
        m   == IF mp < 10 THEN mp + 3 ELSE mp - 9
        y   == yoe + era * 400 + (IF m <= 2 THEN 1 ELSE 0)
    IN  [y |-> y, m |-> m, d |-> d]

\* ECMAScript TimeClip: a time value beyond 8.64e15 ms (100,000,000 days)
\* from the epoch is NaN.
TimeClip(day, sec) ==
    IF \/ day < -100000000
       \/ day > 100000000
       \/ (day = 100000000 /\ sec > 0)
    THEN InvalidDate
    ELSE [valid |-> TRUE, day |-> day, sec |-> sec]

\* ECMAScript MakeDay + MakeTime + UTC(): the instant of local calendar
\* fields, any of which may be out of range (month0 is 0-based, as in
\* JavaScript).  Years too far out to be a Date are cut off before the day
\* arithmetic.
MakeLocal(y, month0, d, h, mi, s, offset) ==
    LET ym   == y + month0 \div 12
        mn   == month0 % 12
        mins == mi + s \div 60 - offset
        hrs  == h + mins \div 60
    IN  IF ym < -300000 \/ ym > 300000 THEN InvalidDate
        ELSE TimeClip(DaysFromCivil(ym, mn + 1) + d - 1 + hrs \div 24,
                      (hrs % 24) * 3600 + (mins % 60) * 60 + (s % 60))

\* getFullYear/getMonth/getDate/getHours/getMinutes/getSeconds: the local
\* calendar fields of a valid Date (month0 is 0-based).
LocalFields(date, offset) ==
    LET total == date.sec + offset * 60
        c     == CivilFromDays(date.day + total \div 86400)
        sod   == total % 86400
    IN  [y |-> c.y, month0 |-> c.m - 1, d |-> c.d,
         h |-> sod \div 3600, mi |-> (sod % 3600) \div 60, s |-> (sod % 60)]

\* main.js:274, 278  new Date(year, month, day): local midnight; the Date
\* constructor reads a year 0..99 as 1900 + year.
NewDate(y, month0, d, offset) ==
    MakeLocal(IF y >= 0 /\ y <= 99 THEN 1900 + y ELSE y, month0, d, 0, 0, 0,
              offset)

\* main.js:277  dateObj > now  (an Invalid Date compares false)
DateGT(a, b) ==
    /\ a.valid
    /\ b.valid
    /\ (a.day > b.day \/ (a.day = b.day /\ a.sec > b.sec))

MonthNames ==
    <<"January", "February", "March", "April", "May", "June", "July",
      "August", "September", "October", "November", "December">>

\* main.js:245, 289  toLocaleDateString('en-GB', {day: 'numeric', month:
\* 'long', year: 'numeric'}): the local calendar day as "D Month YYYY" (kept
\* as its three parts); the year of a date before year 1 prints without era.
ToLocaleDateString(date, offset) ==
    IF ~date.valid THEN [kind |-> "text", text |-> "Invalid Date"]
    ELSE LET f == LocalFields(date, offset)
         IN  [kind |-> "long", d |-> f.d, month |-> MonthNames[f.month0 + 1],
              y |-> IF f.y >= 1 THEN f.y ELSE 1 - f.y]

\* main.js:246, 290  toISOString().slice(0, 10) of a valid Date: the UTC date
\* as "YYYY-MM-DD" for a year 0..9999; outside that range toISOString writes
\* a sign and six year digits, and the first ten characters are "+YYYYYY-MM"
\* or "-YYYYYY-MM".
IsoSlice(date) ==
    LET c == CivilFromDays(date.day)
    IN  IF c.y >= 0 /\ c.y <= 9999
        THEN [kind |-> "YYYY-MM-DD", y |-> c.y, m |-> c.m, d |-> c.d]
        ELSE [kind |-> "sYYYYYY-MM", y |-> c.y, m |-> c.m, d |-> 0]

NullIso == [kind |-> "null", y |-> 0, m |-> 0, d |-> 0]

(***************************************************************************)
(* The argument of normalizeDate.  A string is kept as its whitespace-     *)
(* separated tokens.  A token of digits is its length and value; another   *)
(* token is its text in upper case with commas removed, and `deco` says    *)
(* whether the original spelling differs from that (lower case, a comma).  *)
(***************************************************************************)
Num(len, val) == [kind |-> "num", len |-> len, val |-> val, text |-> "", deco |-> FALSE]
Word(text, deco) == [kind |-> "word", len |-> 0, val |-> 0, text |-> text, deco |-> deco]

Str(toks) == [type |-> "string", toks |-> toks]
Undefined == [type |-> "undefined", toks |-> <<>>]
JsNull == [type |-> "null", toks |-> <<>>]
NotAString == [type |-> "number", toks |-> <<>>]

\* main.js:221-222  the keys of `months` and their values
MonthIndex(key) ==
    CASE key = "JAN" -> 0 [] key = "FEB" -> 1 [] key = "MAR" -> 2
      [] key = "APR" -> 3 [] key = "MAY" -> 4 [] key = "JUN" -> 5
      [] key = "JUL" -> 6 [] key = "AUG" -> 7 [] key = "SEP" -> 8
      [] key = "OCT" -> 9 [] key = "NOV" -> 10 [] key = "DEC" -> 11
      [] OTHER -> -1

\* main.js:259, 264  parts[k].slice(0, 3) for the words of the model
Slice3(text) ==
    CASE text = "JANUARY" -> "JAN"
      [] text = "FEBRUARY" -> "FEB"
      [] text = "MARCH" -> "MAR"
      [] text = "NOVEMBER" -> "NOV"
      [] text = "DECEMBER" -> "DEC"
      [] text = "GARBAGE" -> "GAR"
      [] text = "TEXT" -> "TEX"
      [] text = "2024-11-14" -> "202"
      [] OTHER -> text

\* main.js:225  raw.replace(/,/g, '').trim().toUpperCase(), token by token
Clean(toks) == [k \in 1..Len(toks) |-> [toks[k] EXCEPT !.deco = FALSE]]

\* main.js:257, 262  /^\d{1,2}$/.test(part)
IsDay(tok) == tok.kind = "num" /\ tok.len >= 1 /\ tok.len <= 2

\* main.js:261, 267  /^\d{4}$/.test(part)
IsYear(tok) == tok.kind = "num" /\ tok.len = 4

Units == {"SECOND", "MINUTE", "HOUR", "DAY", "WEEK", "MONTH", "YEAR"}

\* main.js:228  (SECOND|MINUTE|HOUR|DAY|WEEK|MONTH|YEAR)S?  -- the unit of
\* a token, or "" when the token is no unit
UnitOf(tok) ==
    IF tok.kind # "word" THEN ""
    ELSE IF tok.text \in Units THEN tok.text
    ELSE CASE tok.text = "SECONDS" -> "SECOND"
           [] tok.text = "MINUTES" -> "MINUTE"
           [] tok.text = "HOURS" -> "HOUR"
           [] tok.text = "DAYS" -> "DAY"
           [] tok.text = "WEEKS" -> "WEEK"
           [] tok.text = "MONTHS" -> "MONTH"
           [] tok.text = "YEARS" -> "YEAR"
           [] OTHER -> ""

\* main.js:228  s.match(/^(\d+)\s+(...)S?\s+AGO$/i)
RelativeMatch(s) ==
    /\ Len(s) = 3
    /\ s[1].kind = "num"
    /\ UnitOf(s[2]) # ""
    /\ s[3].kind = "word"
    /\ s[3].text = "AGO"

\* main.js:232-243  now = new Date(); now.setXxx(now.getXxx() - amount)
Subtract(t, amount, unit, offset) ==
    LET f == LocalFields(t, offset)
    IN  CASE unit = "SECOND" ->
               MakeLocal(f.y, f.month0, f.d, f.h, f.mi, f.s - amount, offset)
          [] unit = "MINUTE" ->
               MakeLocal(f.y, f.month0, f.d, f.h, f.mi - amount, f.s, offset)
          [] unit = "HOUR" ->
               MakeLocal(f.y, f.month0, f.d, f.h - amount, f.mi, f.s, offset)
          [] unit = "DAY" ->
               MakeLocal(f.y, f.month0, f.d - amount, f.h, f.mi, f.s, offset)
          [] unit = "WEEK" ->
               MakeLocal(f.y, f.month0, f.d - amount * 7, f.h, f.mi, f.s, offset)
          [] unit = "MONTH" ->
               MakeLocal(f.y, f.month0 - amount, f.d, f.h, f.mi, f.s, offset)
          [] unit = "YEAR" ->
               MakeLocal(f.y - amount, f.month0, f.d, f.h, f.mi, f.s, offset)

\* The outcomes of a call.
Returned(full, iso) == [threw |-> FALSE, full |-> full, iso |-> iso]
Threw == [threw |-> TRUE, full |-> [kind |-> "none"], iso |-> NullIso]
\* { full: raw, iso: null }
Echo(r) == Returned([kind |-> "raw", raw |-> r], NullIso)

\* main.js:245-247, 289-291  format a Date; toISOString throws a RangeError
\* on an Invalid Date.
Format(date, offset) ==
    IF ~date.valid THEN Threw
    ELSE Returned(ToLocaleDateString(date, offset), IsoSlice(date))

\* main.js:256-268  day, month and year of the absolute patterns; -1 stands
\* for null.
ParseParts(parts) ==
    IF Len(parts) >= 2 /\ IsDay(parts[1])
    THEN [day   |-> parts[1].val,
          month |-> IF parts[2].kind = "word"
                    THEN MonthIndex(Slice3(parts[2].text)) ELSE -1,
          year  |-> IF Len(parts) >= 3 /\ IsYear(parts[3])
                    THEN parts[3].val ELSE -1]
    ELSE IF Len(parts) >= 2 /\ IsDay(parts[2])
    THEN [day   |-> parts[2].val,
          month |-> IF parts[1].kind = "word"
                    THEN MonthIndex(Slice3(parts[1].text)) ELSE -1,
          year  |-> IF Len(parts) >= 3 /\ IsYear(parts[3])
                    THEN parts[3].val ELSE -1]
    ELSE [day |-> -1, month |-> -1, year |-> -1]

\* `year` is truthy: not null and not 0  (main.js:273, 277)
YearGiven(year) == year # -1 /\ year # 0

\* Variant of NeedsPreviousYear: no correction of a date still to come.
NeverPreviousYear(year, dateObj, t) == FALSE
\* main.js:277  if (!year && dateObj > now)
NeedsPreviousYear(year, dateObj, t) == ~YearGiven(year) /\ DateGT(dateObj, t)

\* main.js:271-279  the Date of a day and a month, with the year inferred
Resolve(p, t, offset) ==
    LET candidateYear == IF YearGiven(p.year) THEN p.year
                         ELSE LocalFields(t, offset).y
        dateObj == NewDate(candidateYear, p.month, p.day, offset)
    IN  IF NeedsPreviousYear(p.year, dateObj, t)
        THEN NewDate(candidateYear - 1, p.month, p.day, offset)
        ELSE dateObj

\* main.js:281-282  Date.parse(s): an ISO date is UTC midnight of that date;
\* what other text gives is up to the engine (guess: NaN or some instant).
DateParse(s, guess) ==
    IF Len(s) = 1 /\ s[1].kind = "word" /\ s[1].text = "2024-11-14"
    THEN TimeClip(DaysFromCivil(2024, 11) + 13, 0)
    ELSE guess

\* main.js:217-292  normalizeDate(raw), with the instant `t` that new Date()
\* returns, the local offset and the engine's Date.parse answer
normalizeDate(r, t, offset, guess) ==
    IF r.type # "string" \/ r.toks = <<>> THEN Echo(r)
    ELSE LET s == Clean(r.toks)
         IN  IF RelativeMatch(s)
             THEN Format(Subtract(t, s[1].val, UnitOf(s[2]), offset), offset)
             ELSE LET p == ParseParts(s)
                      dateObj == IF p.month # -1 /\ p.day # -1
                                 THEN Resolve(p, t, offset)
                                 ELSE DateParse(s, guess)
                  IN  IF ~dateObj.valid THEN Echo(r)
                      ELSE Format(dateObj, offset)

(***************************************************************************)
(* The inputs the Normalizer is checked on.                                *)
(***************************************************************************)
\* Instants of new Date(), UTC: year, month 1..12, day, second of the day.
Utc(y, m, d, sec) == [valid |-> TRUE, day |-> DaysFromCivil(y, m) + d - 1, sec |-> sec]

Nows ==
    { Utc(2024, 1, 10, 1800),      \* 2024-01-10T00:30Z
      Utc(2024, 1, 10, 43200),     \* 2024-01-10T12:00Z
      Utc(2024, 3, 31, 84600),     \* 2024-03-31T23:30Z
      Utc(2025, 12, 15, 0) }       \* 2025-12-15T00:00Z

\* Local offsets in minutes: New York (winter), UTC, Berlin (summer).
Offsets == {-300, 0, 120}

DayTokens == {Num(1, 1), Num(2, 10), Num(2, 14), Num(2, 15), Num(2, 29), Num(2, 31)}

MonthTokens ==
    {Word("JAN", FALSE), Word("FEB", TRUE), Word("NOV", TRUE),
     Word("NOVEMBER", TRUE), Word("DEC", FALSE), Word("GARBAGE", TRUE)}

YearTokens == {Num(4, 2024), Num(4, 2023), Num(4, 50), Num(4, 0), Num(2, 24)}

Amounts == {Num(1, 0), Num(1, 1), Num(1, 2), Num(2, 45), Num(4, 3000), Num(9, 200000000)}

UnitTokens ==
    {Word(u, TRUE) : u \in Units}
        \cup {Word("DAYS", TRUE), Word("WEEKS", FALSE), Word("MONTHS", TRUE)}

AbsoluteInputs ==
    {Str(<<d, m>>) : d \in DayTokens, m \in MonthTokens}
        \cup {Str(<<m, d>>) : d \in DayTokens, m \in MonthTokens}
        \cup {Str(<<d, m, y>>) : d \in DayTokens, m \in MonthTokens, y \in YearTokens}
        \cup {Str(<<m, d, y>>) : d \in DayTokens, m \in MonthTokens, y \in YearTokens}

RelativeInputs == {Str(<<n, u, Word("AGO", TRUE)>>) : n \in Amounts, u \in UnitTokens}

OtherInputs ==
    {Undefined, JsNull, NotAString, Str(<<>>),
     Str(<<Word("GARBAGE", TRUE), Word("TEXT", TRUE)>>),
     Str(<<Word("2024-11-14", FALSE)>>),
     Str(<<Num(1, 2), Word("DAYS", TRUE)>>),
     Str(<<Num(4, 2024)>>)}

RawInputs == AbsoluteInputs \cup RelativeInputs \cup OtherInputs

\* Date.parse on text the standard does not define: NaN, or some instant.
ParseGuesses == {InvalidDate, Utc(2001, 1, 1, 0)}

\* Before any call of normalizeDate.
NoOutput == [threw |-> FALSE, full |-> [kind |-> "none"], iso |-> NullIso]

(***************************************************************************)
(* Initial state: the callback has been entered (lines 149-156) with some  *)
(* limit > 0 and the list in any state.                                    *)
(***************************************************************************)
Init ==
    /\ dom \in Doms
    /\ limit \in 1..MaxLimit
    /\ results = <<>>
    /\ prevCount = 0
    /\ stableAttempts = 0
    /\ rows = <<>>
    /\ i = 1
    /\ currentCount = 0
    /\ pc = "while"
    /\ returned = <<>>
    /\ iters = 0
    /\ grewLater = FALSE
    /\ sinceGrew = 0
    /\ sawGrowth = FALSE
    /\ appendOnly = TRUE
    /\ raw = Undefined
    /\ now = Utc(2024, 1, 10, 0)
    /\ tz = 0
    /\ parseGuess = InvalidDate
    /\ out = NoOutput
    /\ npc = "idle"

(***************************************************************************)
(* Steps of the callback.  The callback runs without interruption between  *)
(* two awaits; the for loop is split by row so that every state of results *)
(* is a state of the model.                                                *)
(***************************************************************************)
\* main.js:158-159  the loop test passes: a fresh read of the list
WhileEnter ==
    /\ pc = "while"
    /\ WhileCond(results, limit, stableAttempts)
    /\ rows' = dom
    /\ i' = 1
    /\ iters' = IF grewLater THEN 0 ELSE Sat(iters)
    /\ sinceGrew' = Sat(sinceGrew)
    /\ pc' = "for"
    /\ UNCHANGED <<dom, limit, results, prevCount, stableAttempts,
                   currentCount, returned, grewLater, sawGrowth, appendOnly,
                   nvars>>

\* main.js:158, 211  the loop test fails: return results.slice(0, limit)
WhileExit ==
    /\ pc = "while"
    /\ ~WhileCond(results, limit, stableAttempts)
    /\ returned' = Slice(results, limit)
    /\ pc' = "done"
    /\ UNCHANGED <<dom, limit, results, prevCount, stableAttempts, rows, i,
                   currentCount, iters, grewLater, sinceGrew, sawGrowth,
                   appendOnly,
                   nvars>>

\* main.js:161-186  one row of the extraction pass
ForRow ==
    /\ pc = "for"
    /\ i <= Len(rows)
    /\ ~ForBreak(results, limit)
    /\ results' = PushRow(results, rows[i])
    /\ i' = i + 1
    /\ UNCHANGED <<dom, limit, prevCount, stableAttempts, rows, currentCount,
                   pc, returned, iters, grewLater, sinceGrew, sawGrowth,
                   appendOnly,
                   nvars>>

\* main.js:188-195  what the end of a pass does to the counters
CountUpdate ==
    /\ currentCount' = Len(dom)
    /\ prevCount' = NextPrevCount(Len(dom), prevCount)
    /\ stableAttempts' = NextStable(Len(dom), prevCount, stableAttempts)
    /\ sawGrowth' = (Len(dom) > currentCount)
    /\ sinceGrew' = IF prevCount' # prevCount THEN 0 ELSE sinceGrew
    /\ grewLater' = (grewLater \/ (iters # 1 /\ prevCount' # prevCount))
    /\ iters' = IF grewLater' THEN 0 ELSE iters

\* main.js:161-162, 188-197, 211  the pass ends (rows exhausted, or break on
\* the limit), the counters are updated, results has reached limit: break out
\* of the while loop and return results.slice(0, limit)
EndPassBreak ==
    /\ pc = "for"
    /\ (i > Len(rows) \/ ForBreak(results, limit))
    /\ CountUpdate
    /\ Len(results) >= limit
    /\ rows' = <<>>
    /\ i' = 1
    /\ returned' = Slice(results, limit)
    /\ pc' = "done"
    /\ UNCHANGED <<dom, limit, results, appendOnly,
                   nvars>>

\* main.js:161-162, 188-208  the pass ends, the counters are updated, results
\* is short of limit: scroll (the last row, or the window) and sleep 800 ms
EndPassSleep ==
    /\ pc = "for"
    /\ (i > Len(rows) \/ ForBreak(results, limit))
    /\ CountUpdate
    /\ Len(results) < limit
    /\ rows' = <<>>
    /\ i' = 1
    /\ pc' = "sleep"
    /\ UNCHANGED <<dom, limit, results, returned, appendOnly,
                   nvars>>

\* The page appends a lazily loaded row while the callback is suspended in
\* sleep (the only await of the loop: the list cannot change anywhere else).
AppendRow ==
    /\ pc = "sleep"
    /\ Len(dom) < MaxRows
    /\ \E r \in RowValues : dom' = Append(dom, r)
    /\ UNCHANGED <<limit, results, prevCount, stableAttempts, rows, i,
                   currentCount, pc, returned, iters, grewLater, sinceGrew,
                   sawGrowth, appendOnly,
                   nvars>>

\* The page drops its first row while the callback is suspended (a list that
\* recycles rows).
RemoveRow ==
    /\ pc = "sleep"
    /\ Len(dom) > 0
    /\ dom' = Tail(dom)
    /\ appendOnly' = FALSE
    /\ UNCHANGED <<limit, results, prevCount, stableAttempts, rows, i,
                   currentCount, pc, returned, iters, grewLater, sinceGrew,
                   sawGrowth,
                   nvars>>

\* main.js:208  the sleep's timer fires; back to the loop test
Wake ==
    /\ pc = "sleep"
    /\ pc' = "while"
    /\ UNCHANGED <<dom, limit, results, prevCount, stableAttempts, rows, i,
                   currentCount, returned, iters, grewLater, sinceGrew,
                   sawGrowth, appendOnly,
                   nvars>>

\* The steps the callback itself takes (the event loop runs them to the end).
CollectorStep ==
    \/ WhileEnter
    \/ WhileExit
    \/ ForRow
    \/ EndPassBreak
    \/ EndPassSleep
    \/ Wake

Next ==
    \/ WhileEnter
    \/ WhileExit
    \/ ForRow
    \/ EndPassBreak
    \/ EndPassSleep
    \/ AppendRow
    \/ RemoveRow
    \/ Wake

Spec == Init /\ [][Next]_vars

\* The callback's own steps always run (single thread, a timer that fires);
\* the page may or may not change the list.
FairSpec == Spec /\ WF_vars(CollectorStep)

(***************************************************************************)
(* The Normalizer on its own: one call of normalizeDate on any input of    *)
(* RawInputs, at any instant of Nows, in any time zone of Offsets.         *)
(***************************************************************************)
NormInit ==
    /\ dom = <<>>
    /\ limit = 1
    /\ results = <<>>
    /\ prevCount = 0
    /\ stableAttempts = 0
    /\ rows = <<>>
    /\ i = 1
    /\ currentCount = 0
    /\ pc = "done"
    /\ returned = <<>>
    /\ iters = 0
    /\ grewLater = FALSE
    /\ sinceGrew = 0
    /\ sawGrowth = FALSE
    /\ appendOnly = TRUE
    /\ raw \in RawInputs
    /\ now \in Nows
    /\ tz \in Offsets
    /\ parseGuess \in ParseGuesses
    /\ out = NoOutput
    /\ npc = "call"

\* main.js:218  absent or non-string input: { full: raw, iso: null }
NormalizeAbsent ==
    /\ npc = "call"
    /\ (raw.type # "string" \/ raw.toks = <<>>)
    /\ out' = normalizeDate(raw, now, tz, parseGuess)
    /\ npc' = "done"
    /\ UNCHANGED <<cvars, raw, now, tz, parseGuess>>

\* main.js:228-248  a string of the relative form
NormalizeRelative ==
    /\ npc = "call"
    /\ raw.type = "string"
    /\ raw.toks # <<>>
    /\ RelativeMatch(Clean(raw.toks))
    /\ out' = normalizeDate(raw, now, tz, parseGuess)
    /\ npc' = "done"
    /\ UNCHANGED <<cvars, raw, now, tz, parseGuess>>

\* main.js:250-291  any other string: the absolute patterns, then Date.parse
NormalizeAbsolute ==
    /\ npc = "call"
    /\ raw.type = "string"
    /\ raw.toks # <<>>
    /\ ~RelativeMatch(Clean(raw.toks))
    /\ out' = normalizeDate(raw, now, tz, parseGuess)
    /\ npc' = "done"
    /\ UNCHANGED <<cvars, raw, now, tz, parseGuess>>

NormNext ==
    \/ NormalizeAbsent
    \/ NormalizeRelative
    \/ NormalizeAbsolute

NormSpec == NormInit /\ [][NormNext]_vars

(***************************************************************************)
(* Properties of the Collector.                                            *)
(***************************************************************************)
\* The titled rows of a list, in order (rows without a title are skipped).
RECURSIVE Titled(_)
Titled(seq) ==
    IF seq = <<>> THEN <<>>
    ELSE IF Truthy(Head(seq)) THEN <<Head(seq)>> \o Titled(Tail(seq))
    ELSE Titled(Tail(seq))

\* Number of maximal runs of equal titles in a sequence of titles.
RECURSIVE Runs(_)
Runs(seq) ==
    IF Len(seq) <= 1 THEN Len(seq)
    ELSE (IF seq[1] = seq[2] THEN 0 ELSE 1) + Runs(Tail(seq))

Min(a, b) == IF a < b THEN a ELSE b

NoAdjacentDup(res) == \A k \in 1..(Len(res) - 1) : res[k].title # res[k + 1].title

\* C1: results never holds more than limit records, in any state of the
\* loop, and neither does the returned list.
C1_ResultsWithinLimit == Len(results) <= limit /\ Len(returned) <= limit

\* C1 witness: the loop returned exactly limit records from a list that
\* offers more distinct-adjacent titles than limit.
C1_Witness ==
    pc = "done" /\ Len(returned) = limit /\ Runs(Titled(dom)) > limit

\* C2: for an append-only list that has stopped growing, the returned list
\* has one record per maximal run of equal titles, up to limit.
C2_OneRecordPerRun ==
    (pc = "done" /\ appendOnly /\ Len(dom) = currentCount)
        => Len(returned) = Min(limit, Runs(Titled(dom)))

\* C3: the loop terminates, and no more than maxStableAttempts iterations
\* run after the last iteration that saw the row count grow.
C3_TerminatesAfterPlateau ==
    /\ <>(pc = "done")
    /\ [](sinceGrew <= maxStableAttempts)

\* C3 witness: the loop saw the list grow in a later iteration, then ran
\* maxStableAttempts iterations without growth and left short of limit.
C3_Witness ==
    /\ pc = "done"
    /\ grewLater
    /\ sinceGrew = maxStableAttempts
    /\ Len(returned) < limit

\* C4: no two adjacent records of results, or of the returned list, have
\* the same title.
C4_NoAdjacentEqualTitles == NoAdjacentDup(results) /\ NoAdjacentDup(returned)

\* C4 witness: the pass has just handled a second row with the same title
\* as the first, and results holds that title once.
C4_Witness ==
    /\ pc = "for"
    /\ i = 3
    /\ Truthy(rows[1])
    /\ rows[1] = rows[2]
    /\ results = <<[title |-> rows[1]]>>

\* C5 as claimed: a list that never grows past its first count lets the loop
\* start at most maxStableAttempts iterations.
C5_AtMostMaxIterations == ~grewLater => iters <= maxStableAttempts

\* C5 amended: a list that never grows past its first count lets the loop
\* start at most maxStableAttempts + 1 iterations, and at most
\* maxStableAttempts when the first count is zero.
C5_AtMostMaxPlusOneIterations ==
    ~grewLater =>
        iters <= (IF prevCount = 0 THEN maxStableAttempts
                  ELSE maxStableAttempts + 1)

\* C5 witness: a run without later growth that started maxStableAttempts + 1
\* iterations and left through the plateau.
C5_Witness ==
    /\ pc = "done"
    /\ ~grewLater
    /\ iters = maxStableAttempts + 1
    /\ Len(returned) < limit

\* C10: when an iteration has updated the counters, stableAttempts is 0
\* exactly when the count it re-read is greater than the count the previous
\* iteration re-read.
C10_ResetIffGrewSincePreviousIteration ==
    pc = "sleep" => ((stableAttempts = 0) <=> sawGrowth)

(***************************************************************************)
(* Properties of the Normalizer.                                           *)
(***************************************************************************)
IsLeap(y) == y % 4 = 0 /\ (y % 100 # 0 \/ y % 400 = 0)

\* Days of month m (1..12) of year y.
MonthLen(m, y) ==
    IF m = 2 THEN (IF IsLeap(y) THEN 29 ELSE 28)
    ELSE IF m \in {4, 6, 9, 11} THEN 30 ELSE 31

\* The day, month and year tokens of a string input.
PartsOf(r) == ParseParts(Clean(r.toks))

\* The output is the long form of day d, month m (1..12), year y.
FullIs(o, y, m, d) ==
    /\ ~o.threw
    /\ o.full.kind = "long"
    /\ o.full.d = d
    /\ o.full.month = MonthNames[m]
    /\ o.full.y = y

\* The output's iso is YYYY-MM-DD of day d, month m (1..12), year y.
IsoIs(o, y, m, d) ==
    /\ ~o.threw
    /\ o.iso.kind = "YYYY-MM-DD"
    /\ o.iso.y = y
    /\ o.iso.m = m
    /\ o.iso.d = d

\* C6: normalizeDate never throws; iso is a well-formed YYYY-MM-DD date or
\* null; and when iso is null, full is the raw input itself.
C6_NeverThrowsIsoWellFormedOrNull ==
    npc = "done" =>
        /\ ~out.threw
        /\ out.iso.kind \in {"YYYY-MM-DD", "null"}
        /\ (out.iso.kind = "null" =>
                out.full.kind = "raw" /\ out.full.raw = raw)

\* An input 'D MON YYYY' or 'MON D YYYY' that names a valid calendar date
\* (a year from 0001 on, a day that the month has).
IsFullDate(r) ==
    /\ r.type = "string"
    /\ Len(r.toks) = 3
    /\ IsYear(r.toks[3])
    /\ r.toks[3].val >= 1
    /\ PartsOf(r).month # -1
    /\ PartsOf(r).day >= 1
    /\ PartsOf(r).day <= MonthLen(PartsOf(r).month + 1, r.toks[3].val)

\* C7: for 'D MON YYYY' or 'MON D YYYY' naming a valid date, full is that
\* date in long form and iso is that same date, in every time zone.
C7_AbsoluteDateFullAndIso ==
    (npc = "done" /\ IsFullDate(raw)) =>
        /\ FullIs(out, raw.toks[3].val, PartsOf(raw).month + 1, PartsOf(raw).day)
        /\ IsoIs(out, raw.toks[3].val, PartsOf(raw).month + 1, PartsOf(raw).day)

\* The local calendar day of the current moment.
Today == LocalFields(now, tz)

\* Day d of month0 (0-based) falls after today's day within a year.
AfterToday(month0, d) ==
    month0 > Today.month0 \/ (month0 = Today.month0 /\ d > Today.d)

\* The year C8 gives a day and month without a year: the current year,
\* or the previous one when that day is still to come.
InferredYear(month0, d) == IF AfterToday(month0, d) THEN Today.y - 1 ELSE Today.y

\* An input 'D MON' or 'MON D', with no third token or one that is not four
\* digits, whose day exists in that month of the inferred year.
IsYearlessDate(r) ==
    /\ r.type = "string"
    /\ Len(r.toks) \in {2, 3}
    /\ (Len(r.toks) = 3 => ~IsYear(r.toks[3]))
    /\ PartsOf(r).month # -1
    /\ PartsOf(r).day >= 1
    /\ PartsOf(r).day <= MonthLen(PartsOf(r).month + 1,
                                  InferredYear(PartsOf(r).month, PartsOf(r).day))

\* C8: a day and month without a (4-digit) year resolve in the current
\* year, or in the previous year when that date lies after the current
\* moment; the resolved day is never after today.
C8_YearInference ==
    (npc = "done" /\ IsYearlessDate(raw)) =>
        /\ FullIs(out, InferredYear(PartsOf(raw).month, PartsOf(raw).day),
                  PartsOf(raw).month + 1, PartsOf(raw).day)
        /\ (out.full.y < Today.y \/ ~AfterToday(PartsOf(raw).month, PartsOf(raw).day))

\* C8 witness: '15 DEC' at 2024-01-10T12:00Z resolved to 15 December 2023.
C8_Witness ==
    /\ npc = "done"
    /\ raw = Str(<<Num(2, 15), Word("DEC", FALSE)>>)
    /\ now = Utc(2024, 1, 10, 43200)
    /\ FullIs(out, 2023, 12, 15)

\* The local day number n units before the current moment, for the units
\* counted in seconds and days.
DayNumberAgo(amount, unit) ==
    LET localSec == now.sec + tz * 60
    IN  CASE unit = "SECOND" -> now.day + (localSec - amount) \div 86400
          [] unit = "MINUTE" -> now.day + (localSec \div 60 - amount) \div 1440
          [] unit = "HOUR" -> now.day + (localSec \div 3600 - amount) \div 24
          [] unit = "DAY" -> now.day + localSec \div 86400 - amount
          [] unit = "WEEK" -> now.day + localSec \div 86400 - 7 * amount

\* The calendar date n units before the current moment; MONTH and YEAR by
\* field subtraction, a day past the month's end running into the next.
\* No date when the year leaves the range of a Date.
DateAgo(amount, unit) ==
    IF unit \in {"MONTH", "YEAR"}
    THEN LET months == Today.y * 12 + Today.month0
                         - (IF unit = "MONTH" THEN amount ELSE 12 * amount)
         IN  IF months \div 12 < -300000
             THEN [y |-> 0, m |-> 0, d |-> 0]
             ELSE CivilFromDays(DaysFromCivil(months \div 12, (months % 12) + 1)
                                + Today.d - 1)
    ELSE CivilFromDays(DayNumberAgo(amount, unit))

\* C9: for '<n> <unit>[S] AGO', full and iso both name the date n units
\* before the current moment.
C9_RelativeDateFullAndIso ==
    (npc = "done" /\ raw.type = "string" /\ RelativeMatch(Clean(raw.toks))) =>
        LET e == DateAgo(raw.toks[1].val, UnitOf(Clean(raw.toks)[2]))
        IN  FullIs(out, e.y, e.m, e.d) /\ IsoIs(out, e.y, e.m, e.d)

====
